---- MODULE Spec2Model ----
(***************************************************************************)
(* A model of ipc-rs: a named, cross-process counting semaphore.           *)
(*                                                                         *)
(* The Unix backend (src/src/unix.rs) is modelled system call by system    *)
(* call on top of a model of the System V semaphore facility it uses       *)
(* (semget / semctl / semop, the per-process SEM_UNDO adjustments and      *)
(* sem_otime).  The facade (src/src/lib.rs) adds acquire / try_acquire /   *)
(* release / access / try_access and the Guard.                            *)
(***************************************************************************)
EXTENDS Integers, FiniteSets, Sequences, TLC

(***************************************************************************)
(* Bounds of the model.                                                    *)
(***************************************************************************)
\* Number of operating-system processes.  A process that terminates is
\* replaced by a fresh one under the same index.
NumProcs == 2
\* Number of semaphore sets the kernel hands out before semget reports
\* ENOSPC (the system limit SEMMNI, scaled down).
MaxIds == 2
\* The joiner's poll loop runs `for _ in 0..1000`; the loop bound is scaled
\* down so that the interleavings of the loop with the initializer are
\* explored.  No property below depends on its value.
PollLimit == 2
\* A process issues a further decrement (wait / try_wait) only while its
\* undo adjustment for the semaphore and the number of Guards it holds on
\* it are below MaxHeld.  It calls release()
\* only while its adjustment is above -MaxRel and the counter is less than
\* MaxRel above its initial value (a Guard's drop is never held back).
MaxHeld == 1
MaxRel == 1
\* Number of times one wait() is interrupted by a signal.
MaxIntr == 2

(***************************************************************************)
(* Program and kernel constants.                                           *)
(***************************************************************************)
\* Largest semaphore value of the kernel; semop fails with ERANGE above it.
SEMVMX == 32767
\* 2^16: `cnt as libc::c_short` keeps the low 16 bits of cnt.
ShortMod == 65536

Procs == 1..NumProcs
Ids == 1..MaxIds
Names == {"foo1", "foo2"}
\* The names the processes of the open system (Spec) pass to new().
OpenNames == {"foo1"}
\* Initial counts a caller passes to new(): ordinary ones, the largest one
\* the kernel can hold, and two that do not fit a signed 16-bit amount.
CntSet == {0, 1, 2, 32767, 32768, 65537}

NoId == 0

\* A name without marker file.
NoFile == 0
\* Inode numbers the filesystem hands out to marker files: two small ones and
\* one that agrees with the first in its low 16 bits.
InodeSet == {1, 2, 65537}
\* The inodes in use or free in the open system, in the two-process test and
\* in the system of waiters and releasers.
PlainInodes == {1, 2}
\* ftok keeps the low 16 bits of the inode number.
FtokInoMod == 65536

VARIABLES
    \* ---- kernel: System V semaphore sets -------------------------------
    marker,     \* name -> inode of its marker file under <tmp>/ipc-rs-sems,
                \* or NoFile
    freeInodes, \* inodes the filesystem may give to a new marker file
    keySem,     \* key -> id of the live set under it, or NoId
    nextId,     \* next fresh semaphore id
    semAlive,   \* id -> the set exists (created and not IPC_RMID'ed)
    semval,     \* id -> value of semaphore 0 of the set
    otime,      \* id -> sem_otime is non-zero
    semadj,     \* process -> id -> SEM_UNDO adjustment
    \* ---- processes -----------------------------------------------------
    pc,         \* process -> where it is
    curName,    \* process -> name argument of the new() in progress
    curCnt,     \* process -> cnt argument of the new() in progress
    curId,      \* process -> semid of the call in progress
    polls,      \* process -> iterations of the poll loop completed
    intr,       \* process -> times the wait() in progress was interrupted by
                \* a signal (EINTR) and went round its loop
    wantGuard,  \* process -> the call in progress is access / try_access /
                \* a Guard's drop (else acquire / try_acquire / release)
    handles,    \* process -> semids of the Semaphore values it owns
    guards,     \* process -> id -> number of live Guards
    ret,        \* process -> outcome of the call that has just returned
                \* (for a process that has just ended: how it ended)
    \* ---- history (read by properties only) -----------------------------
    initDone,   \* id -> the initializer's semop has completed
    initVal,    \* id -> value the initializer's semop left in the counter
    initCnt,    \* id -> cnt argument of the initializer
    rawUsed,    \* id -> a unit was asked for or given outside a Guard
                \* (acquire, a try_acquire that got one, release)
    held,       \* process -> id -> units acquired minus units released
    sawInit,    \* process -> its new() was called on a name whose counter
                \* existed and was initialized
    \* ---- the test programs (src/bin/test.rs, tests/test.rs) -----------
    prog,       \* process -> "open" (calls anything), "A" (first_pass), "B"
                \* (test1_inner) or "none"
    step,       \* process -> next statement of its program (0: not started)
    variant     \* which child program B runs: "bin" or "tests"

kvars == <<marker, freeInodes, keySem, nextId, semAlive, semval, otime, semadj>>
pvars == <<pc, curName, curCnt, curId, polls, intr, wantGuard, handles, guards, ret>>
hvars == <<initDone, initVal, initCnt, rawUsed, held, sawInit>>
svars == <<prog, step, variant>>
vars == <<kvars, pvars, hvars, svars>>

(***************************************************************************)
(* Pure helpers.                                                           *)
(***************************************************************************)
\* `cnt as libc::c_short`: two's-complement truncation to 16 bits.
AsShort(cnt) ==
    LET m == cnt % ShortMod
    IN  IF m >= ShortMod \div 2 THEN m - ShortMod ELSE m

\* semop(2) on one semaphore: the operation can be applied now.
\*   op > 0: always (unless the value would exceed SEMVMX: ERANGE)
\*   op < 0: when the value is at least |op|
\*   op = 0: when the value is zero
SemopReady(val, op) ==
    IF op > 0 THEN val + op <= SEMVMX
    ELSE IF op < 0 THEN val + op >= 0
    ELSE val = 0

\* semop(2) fails with ERANGE.
SemopRange(val, op) == op > 0 /\ val + op > SEMVMX

\* The kernel's adjustment of a value at process exit: semval += semadj,
\* clamped to 0..SEMVMX.
UndoVal(val, adj) ==
    LET v == val + adj
    IN  IF v < 0 THEN 0 ELSE IF v > SEMVMX THEN SEMVMX ELSE v

\* ftok(path, 'I'): the low 16 bits of the file's inode number, 8 bits of its
\* device number and 8 bits of the project id.  All marker files live in one
\* directory and the project id is the constant 'I', so keys differ by the
\* inode bits only.
Ftok(ino) == ino % FtokInoMod
Keys == {Ftok(i) : i \in InodeSet}

\* The key ftok derives from the marker file of a name.
Key(n) == Ftok(marker[n])

\* The inodes of the marker files that exist.
UsedInodes == {marker[n] : n \in Names} \ {NoFile}

(***************************************************************************)
(* Initial state: no marker file, no semaphore set, every process idle.    *)
(***************************************************************************)
KernelInit ==
    /\ marker \in [Names -> InodeSet \cup {NoFile}]
    /\ \A m, n \in Names : marker[m] = marker[n] /\ m # n => marker[m] = NoFile
    /\ freeInodes \in SUBSET (InodeSet \ UsedInodes)
    /\ keySem = [k \in Keys |-> NoId]
    /\ nextId = 1
    /\ semAlive = [i \in Ids |-> FALSE]
    /\ semval = [i \in Ids |-> 0]
    /\ otime = [i \in Ids |-> FALSE]
    /\ semadj = [p \in Procs |-> [i \in Ids |-> 0]]
    /\ pc = [p \in Procs |-> "idle"]
    /\ curName = [p \in Procs |-> "foo1"]
    /\ curCnt = [p \in Procs |-> 0]
    /\ curId = [p \in Procs |-> NoId]
    /\ polls = [p \in Procs |-> 0]
    /\ intr = [p \in Procs |-> 0]
    /\ wantGuard = [p \in Procs |-> FALSE]
    /\ handles = [p \in Procs |-> {}]
    /\ guards = [p \in Procs |-> [i \in Ids |-> 0]]
    /\ ret = [p \in Procs |-> "none"]
    /\ initDone = [i \in Ids |-> FALSE]
    /\ initVal = [i \in Ids |-> 0]
    /\ initCnt = [i \in Ids |-> 0]
    /\ rawUsed = [i \in Ids |-> FALSE]
    /\ held = [p \in Procs |-> [i \in Ids |-> 0]]
    /\ sawInit = [p \in Procs |-> FALSE]

Init ==
    /\ KernelInit
    /\ \A n \in Names \ OpenNames : marker[n] = NoFile
    /\ freeInodes \cup UsedInodes = {CHOOSE i \in PlainInodes : \A j \in PlainInodes : i <= j}
    /\ prog = [p \in Procs |-> "open"]
    /\ step = [p \in Procs |-> 0]
    /\ variant = "bin"

(***************************************************************************)
(* Semaphore::new (unix.rs), one action per system call.                   *)
(***************************************************************************)
\* Values a freshly created, not yet initialized semaphore may hold ("the
\* initial value seems to be generally undefined").
GarbageVals == {0, 1}

\* Returning from a call with outcome r: the call's locals are gone, and the
\* caller holds the outcome until it goes on (Resume).
Return(p, r) ==
    /\ pc' = [pc EXCEPT ![p] = "returned"]
    /\ ret' = [ret EXCEPT ![p] = r]
    /\ curName' = [curName EXCEPT ![p] = "foo1"]
    /\ curCnt' = [curCnt EXCEPT ![p] = 0]
    /\ curId' = [curId EXCEPT ![p] = NoId]
    /\ polls' = [polls EXCEPT ![p] = 0]
    /\ intr' = [intr EXCEPT ![p] = 0]
    /\ wantGuard' = [wantGuard EXCEPT ![p] = FALSE]

\* Mutant of ExclFree: the create is not exclusive (no IPC_EXCL), so every
\* caller takes the initializer path.
ExclFree_NoExcl(n) == TRUE

\* semget(key, 1, IPC_CREAT | IPC_EXCL | 0o666) finds no set under the key.
ExclFree(n) == keySem[Key(n)] = NoId

\* A counter exists under the name and its sem_otime is non-zero.
Initialized(n) ==
    /\ marker[n] # NoFile
    /\ keySem[Key(n)] # NoId
    /\ otime[keySem[Key(n)]]

\* Semaphore::new(name, cnt) is called; Semaphore::key makes sure the marker
\* file exists and derives the key from it.
CallNew(p, n, cnt) ==
    /\ pc[p] = "idle"
    /\ IF marker[n] # NoFile
       THEN UNCHANGED <<marker, freeInodes>>
       ELSE \E i \in freeInodes :
               /\ marker' = [marker EXCEPT ![n] = i]
               /\ freeInodes' = freeInodes \ {i}
    /\ pc' = [pc EXCEPT ![p] = "semget"]
    /\ curName' = [curName EXCEPT ![p] = n]
    /\ curCnt' = [curCnt EXCEPT ![p] = cnt]
    /\ curId' = [curId EXCEPT ![p] = NoId]
    /\ polls' = [polls EXCEPT ![p] = 0]
    /\ intr' = [intr EXCEPT ![p] = 0]
    /\ sawInit' = [sawInit EXCEPT ![p] = Initialized(n)]
    /\ UNCHANGED <<keySem, nextId, semAlive, semval, otime, semadj>>
    /\ UNCHANGED <<wantGuard, handles, guards, ret>>
    /\ UNCHANGED <<initDone, initVal, initCnt, rawUsed, held>>

\* The exclusive create succeeds: this caller is the initializer.
SemgetCreate(p) ==
    /\ pc[p] = "semget"
    /\ ExclFree(curName[p])
    /\ nextId <= MaxIds
    /\ \E g \in GarbageVals :
          semval' = [semval EXCEPT ![nextId] = g]
    /\ keySem' = [keySem EXCEPT ![Key(curName[p])] = nextId]
    /\ semAlive' = [semAlive EXCEPT ![nextId] = TRUE]
    /\ nextId' = nextId + 1
    /\ curId' = [curId EXCEPT ![p] = nextId]
    /\ pc' = [pc EXCEPT ![p] = "init_setval"]
    /\ initCnt' = [initCnt EXCEPT ![nextId] = curCnt[p]]
    /\ UNCHANGED <<marker, freeInodes, otime, semadj>>
    /\ UNCHANGED <<curName, curCnt, polls, intr, wantGuard, handles, guards, ret>>
    /\ UNCHANGED <<initDone, initVal, rawUsed, held, sawInit>>
    /\ UNCHANGED svars

\* The exclusive create fails with ENOSPC (no semaphore set left): `e =>
\* return Err(e)`.
SemgetNoSpace(p) ==
    /\ pc[p] = "semget"
    /\ ExclFree(curName[p])
    /\ nextId > MaxIds
    /\ Return(p, "Err")
    /\ UNCHANGED kvars
    /\ UNCHANGED <<handles, guards>>
    /\ UNCHANGED hvars
    /\ UNCHANGED svars

\* The exclusive create fails with EEXIST: this caller is a joiner.  The
\* joiner path never reads cnt again.
SemgetExists(p) ==
    /\ pc[p] = "semget"
    /\ ~ExclFree(curName[p])
    /\ pc' = [pc EXCEPT ![p] = "join_semget"]
    /\ curCnt' = [curCnt EXCEPT ![p] = 0]
    /\ UNCHANGED kvars
    /\ UNCHANGED <<curName, curId, polls, intr, wantGuard, handles, guards, ret>>
    /\ UNCHANGED hvars
    /\ UNCHANGED svars

\* Initializer: semctl(semid, 0, SETVAL, 0).  SETVAL also clears the undo
\* adjustments every process has for the semaphore.
InitSetval(p) ==
    /\ pc[p] = "init_setval"
    /\ semval' = [semval EXCEPT ![curId[p]] = 0]
    /\ semadj' = [q \in Procs |-> [semadj[q] EXCEPT ![curId[p]] = 0]]
    /\ pc' = [pc EXCEPT ![p] = "init_semop"]
    /\ UNCHANGED <<marker, freeInodes, keySem, nextId, semAlive, otime>>
    /\ UNCHANGED <<curName, curCnt, curId, polls, intr, wantGuard, handles, guards, ret>>
    /\ UNCHANGED hvars
    /\ UNCHANGED svars

\* Mutant of InitOp: the initializer gives every counter one unit, whatever
\* cnt is.
InitOp_One(cnt) == 1

\* The amount of the initializer's semop: `sem_op: cnt as libc::c_short`.
InitOp(cnt) == AsShort(cnt)

\* Mutant of InitSemop: the initializer sets the value with a raw value set
\* (SETVAL), which leaves sem_otime alone.
InitSemop_SetvalOnly(p) ==
    /\ pc[p] = "init_semop"
    /\ SemopReady(semval[curId[p]], InitOp(curCnt[p]))
    /\ semval' = [semval EXCEPT ![curId[p]] = @ + InitOp(curCnt[p])]
    /\ handles' = [handles EXCEPT ![p] = @ \cup {curId[p]}]
    /\ Return(p, "Ok")
    /\ initDone' = [initDone EXCEPT ![curId[p]] = TRUE]
    /\ initVal' = [initVal EXCEPT ![curId[p]] = semval'[curId[p]]]
    /\ UNCHANGED <<marker, freeInodes, keySem, nextId, semAlive, semadj, otime>>
    /\ UNCHANGED guards
    /\ UNCHANGED <<initCnt, rawUsed, held, sawInit>>
    /\ UNCHANGED svars

\* Mutant of InitSemop: the initializer's semop carries SEM_UNDO.
InitSemop_Undo(p) ==
    /\ pc[p] = "init_semop"
    /\ SemopReady(semval[curId[p]], InitOp(curCnt[p]))
    /\ semval' = [semval EXCEPT ![curId[p]] = @ + InitOp(curCnt[p])]
    /\ semadj' = [semadj EXCEPT ![p][curId[p]] = @ - InitOp(curCnt[p])]
    /\ otime' = [otime EXCEPT ![curId[p]] = TRUE]
    /\ handles' = [handles EXCEPT ![p] = @ \cup {curId[p]}]
    /\ Return(p, "Ok")
    /\ initDone' = [initDone EXCEPT ![curId[p]] = TRUE]
    /\ initVal' = [initVal EXCEPT ![curId[p]] = semval'[curId[p]]]
    /\ UNCHANGED <<marker, freeInodes, keySem, nextId, semAlive>>
    /\ UNCHANGED guards
    /\ UNCHANGED <<initCnt, rawUsed, held, sawInit>>
    /\ UNCHANGED svars

\* Initializer: semop(semid, {0, cnt as c_short, 0}) is applied; it sets
\* sem_otime, and new returns Ok.  The operation carries no SEM_UNDO.
InitSemop(p) ==
    /\ pc[p] = "init_semop"
    /\ SemopReady(semval[curId[p]], InitOp(curCnt[p]))
    /\ semval' = [semval EXCEPT ![curId[p]] = @ + InitOp(curCnt[p])]
    /\ otime' = [otime EXCEPT ![curId[p]] = TRUE]
    /\ handles' = [handles EXCEPT ![p] = @ \cup {curId[p]}]
    /\ Return(p, "Ok")
    /\ initDone' = [initDone EXCEPT ![curId[p]] = TRUE]
    /\ initVal' = [initVal EXCEPT ![curId[p]] = semval'[curId[p]]]
    /\ UNCHANGED <<marker, freeInodes, keySem, nextId, semAlive, semadj>>
    /\ UNCHANGED guards
    /\ UNCHANGED <<initCnt, rawUsed, held, sawInit>>
    /\ UNCHANGED svars

\* Mutant of InitRollback: the error is returned but the set is left behind.
InitRollback_NoRmid(p) ==
    /\ pc[p] = "init_semop"
    /\ ~SemopReady(semval[curId[p]], InitOp(curCnt[p]))
    /\ Return(p, "Err")
    /\ UNCHANGED kvars
    /\ UNCHANGED <<handles, guards>>
    /\ UNCHANGED hvars
    /\ UNCHANGED svars

\* Initializer: the semop blocks (its amount is negative) and a signal
\* interrupts it (EINTR): `semctl(semid, 0, IPC_RMID); return Err(err)`.
\* The kernel frees the set with everything that belongs to it.
InitRollback(p) ==
    /\ pc[p] = "init_semop"
    /\ ~SemopReady(semval[curId[p]], InitOp(curCnt[p]))
    /\ semAlive' = [semAlive EXCEPT ![curId[p]] = FALSE]
    /\ keySem' = [keySem EXCEPT ![Key(curName[p])] = NoId]
    /\ semval' = [semval EXCEPT ![curId[p]] = 0]
    /\ semadj' = [q \in Procs |-> [semadj[q] EXCEPT ![curId[p]] = 0]]
    /\ initCnt' = [initCnt EXCEPT ![curId[p]] = 0]
    /\ Return(p, "Err")
    /\ UNCHANGED <<marker, freeInodes, nextId, otime>>
    /\ UNCHANGED <<handles, guards>>
    /\ UNCHANGED <<initDone, initVal, rawUsed, held, sawInit>>
    /\ UNCHANGED svars

\* Joiner: semget(key, 1, 0) returns the existing set.
JoinSemget(p) ==
    /\ pc[p] = "join_semget"
    /\ keySem[Key(curName[p])] # NoId
    /\ curId' = [curId EXCEPT ![p] = keySem[Key(curName[p])]]
    /\ polls' = [polls EXCEPT ![p] = 0]
    /\ intr' = [intr EXCEPT ![p] = 0]
    /\ pc' = [pc EXCEPT ![p] = "join_poll"]
    /\ UNCHANGED kvars
    /\ UNCHANGED <<curName, curCnt, wantGuard, handles, guards, ret>>
    /\ UNCHANGED hvars
    /\ UNCHANGED svars

\* Joiner: semget(key, 1, 0) fails (ENOENT: the set was removed meanwhile).
JoinSemgetFail(p) ==
    /\ pc[p] = "join_semget"
    /\ keySem[Key(curName[p])] = NoId
    /\ Return(p, "Err")
    /\ UNCHANGED kvars
    /\ UNCHANGED <<handles, guards>>
    /\ UNCHANGED hvars
    /\ UNCHANGED svars

\* Mutant of StatOtime: the joiner takes the existence of the set for its
\* initialization.
StatOtime_Exists(id) == semAlive[id]

\* What one IPC_STAT of the poll loop reads in sem_otime.
StatOtime(id) == otime[id]

\* Mutant of LastPoll: the loop has no bound.
LastPoll_Never(n) == FALSE

\* After n polls that found sem_otime = 0, the poll now made is the last one
\* of `for _ in 0..1000`.
LastPoll(n) == n + 1 >= PollLimit

\* Mutant of JoinPoll: a joiner whose loop runs out takes the counter as it
\* is and returns Ok.
JoinPoll_Adopt(p) ==
    /\ pc[p] = "join_poll"
    /\ IF ~semAlive[curId[p]]
       THEN /\ Return(p, "Err")
            /\ UNCHANGED handles
       ELSE IF StatOtime(curId[p]) \/ LastPoll(polls[p])
       THEN /\ Return(p, "Ok")
            /\ handles' = [handles EXCEPT ![p] = @ \cup {curId[p]}]
       ELSE /\ polls' = [polls EXCEPT ![p] = @ + 1]
            /\ UNCHANGED <<pc, ret, handles, curName, curCnt, curId, wantGuard, intr>>
    /\ UNCHANGED kvars
    /\ UNCHANGED guards
    /\ UNCHANGED hvars
    /\ UNCHANGED svars

\* Joiner: one iteration of `for _ in 0..1000`: semctl(semid, 0, IPC_STAT).
\*   the call fails (the set was removed)       -> Err
\*   sem_otime != 0                             -> Ok
\*   sem_otime = 0 on the last iteration        -> Err(TimedOut)
\*   sem_otime = 0 otherwise                    -> next iteration
JoinPoll(p) ==
    /\ pc[p] = "join_poll"
    /\ IF ~semAlive[curId[p]]
       THEN /\ Return(p, "Err")
            /\ UNCHANGED handles
       ELSE IF StatOtime(curId[p])
       THEN /\ Return(p, "Ok")
            /\ handles' = [handles EXCEPT ![p] = @ \cup {curId[p]}]
       ELSE IF LastPoll(polls[p])
       THEN /\ Return(p, "TimedOut")
            /\ UNCHANGED handles
       ELSE /\ polls' = [polls EXCEPT ![p] = @ + 1]
            /\ UNCHANGED <<pc, ret, handles, curName, curCnt, curId, wantGuard, intr>>
    /\ UNCHANGED kvars
    /\ UNCHANGED guards
    /\ UNCHANGED hvars
    /\ UNCHANGED svars

(***************************************************************************)
(* wait / try_wait / post (unix.rs) and the facade and Guard (lib.rs).     *)
(***************************************************************************)
\* Mutant of Modify: the operation does not carry SEM_UNDO.
Modify_NoUndo(p, id, amt) ==
    /\ semval' = [semval EXCEPT ![id] = @ + amt]
    /\ semadj' = semadj
    /\ otime' = [otime EXCEPT ![id] = TRUE]

\* Semaphore::modify(amt, wait) applied by the kernel: semop adds amt to the
\* value and, the operation carrying SEM_UNDO, subtracts it from the
\* caller's adjustment.
Modify(p, id, amt) ==
    /\ semval' = [semval EXCEPT ![id] = @ + amt]
    /\ semadj' = [semadj EXCEPT ![p][id] = @ - amt]
    /\ otime' = [otime EXCEPT ![id] = TRUE]

\* History: process p has taken (n = 1) or given back (n = -1) one unit.
Account(p, id, n) == held' = [held EXCEPT ![p][id] = @ + n]

\* acquire() (g = FALSE) or access() (g = TRUE) is called on a handle.
CallWait(p, id, g) ==
    /\ pc[p] = "idle"
    /\ id \in handles[p]
    /\ semadj[p][id] < MaxHeld
    /\ guards[p][id] < MaxHeld
    /\ pc' = [pc EXCEPT ![p] = "wait"]
    /\ curId' = [curId EXCEPT ![p] = id]
    /\ wantGuard' = [wantGuard EXCEPT ![p] = g]
    /\ rawUsed' = [rawUsed EXCEPT ![id] = @ \/ ~g]
    /\ UNCHANGED kvars
    /\ UNCHANGED <<curName, curCnt, polls, intr, handles, guards, ret>>
    /\ UNCHANGED <<initDone, initVal, initCnt, held, sawInit>>

\* Mutant of WaitReady: wait() does not block on an empty counter.
WaitReady_NoBlock(id) == semval[id] >= 0

\* Mutant of WaitReady: the blocking decrement needs two units.
WaitReady_Two(id) == semval[id] > 1

\* The blocking decrement of wait() can be applied.
WaitReady(id) == SemopReady(semval[id], -1)

\* wait(): `self.modify(-1, true) == 0`: the kernel applies the decrement
\* and the call returns; access() then builds the Guard.
WaitDone(p) ==
    /\ pc[p] = "wait"
    /\ WaitReady(curId[p])
    /\ Modify(p, curId[p], -1)
    /\ Account(p, curId[p], 1)
    /\ guards' = [guards EXCEPT ![p][curId[p]] = @ + (IF wantGuard[p] THEN 1 ELSE 0)]
    /\ Return(p, IF wantGuard[p] THEN "guard" ELSE "acquired")
    /\ UNCHANGED <<marker, freeInodes, keySem, nextId, semAlive>>
    /\ UNCHANGED handles
    /\ UNCHANGED <<initDone, initVal, initCnt, rawUsed, sawInit>>
    /\ UNCHANGED svars

\* Mutant of WaitInterrupted: the interrupted decrement is applied all the
\* same before wait() goes round its loop.
WaitInterrupted_Applied(p) ==
    /\ pc[p] = "wait"
    /\ ~WaitReady(curId[p])
    /\ intr[p] < MaxIntr
    /\ intr' = [intr EXCEPT ![p] = @ + 1]
    /\ Modify(p, curId[p], -1)
    /\ Account(p, curId[p], 1)
    /\ UNCHANGED <<marker, freeInodes, keySem, nextId, semAlive>>
    /\ UNCHANGED <<pc, curName, curCnt, curId, polls, wantGuard, handles, guards, ret>>
    /\ UNCHANGED <<initDone, initVal, initCnt, rawUsed, sawInit>>
    /\ UNCHANGED svars

\* wait(): a signal arrives while the decrement is blocked; semop fails with
\* EINTR, nothing was applied, and the loop issues the same operation again:
\* `ref e if e.raw_os_error() == Some(libc::EINTR) => {}`.
WaitInterrupted(p) ==
    /\ pc[p] = "wait"
    /\ ~WaitReady(curId[p])
    /\ intr[p] < MaxIntr
    /\ intr' = [intr EXCEPT ![p] = @ + 1]
    /\ UNCHANGED kvars
    /\ UNCHANGED <<pc, curName, curCnt, curId, polls, wantGuard, handles, guards, ret>>
    /\ UNCHANGED hvars
    /\ UNCHANGED svars

\* try_acquire() (g = FALSE) or try_access() (g = TRUE) is called.
CallTryWait(p, id, g) ==
    /\ pc[p] = "idle"
    /\ id \in handles[p]
    /\ semadj[p][id] < MaxHeld
    /\ guards[p][id] < MaxHeld
    /\ pc' = [pc EXCEPT ![p] = "try_wait"]
    /\ curId' = [curId EXCEPT ![p] = id]
    /\ wantGuard' = [wantGuard EXCEPT ![p] = g]
    /\ UNCHANGED kvars
    /\ UNCHANGED <<curName, curCnt, polls, intr, handles, guards, ret>>
    /\ UNCHANGED hvars

\* Mutant of TryReady: try_wait() takes a unit whatever the value is.
TryReady_NoCheck(id) == semval[id] >= 0

\* The non-blocking decrement of try_wait() is applied (else: EAGAIN).
TryReady(id) == SemopReady(semval[id], -1)

\* try_access(): `if self.try_acquire() { Some(Guard) } else { None }`.
TryGuard(g, ok) == IF g /\ ok THEN 1 ELSE 0

\* try_wait(): `self.modify(-1, false)`: applied at once (true), or EAGAIN
\* (false) when the value is 0.
TryWaitDone(p) ==
    /\ pc[p] = "try_wait"
    /\ IF TryReady(curId[p])
       THEN /\ Modify(p, curId[p], -1)
            /\ Account(p, curId[p], 1)
            /\ guards' = [guards EXCEPT ![p][curId[p]] = @ + TryGuard(wantGuard[p], TRUE)]
            /\ rawUsed' = [rawUsed EXCEPT ![curId[p]] = @ \/ ~wantGuard[p]]
            /\ Return(p, IF wantGuard[p] THEN "some_guard" ELSE "true")
       ELSE /\ guards' = [guards EXCEPT ![p][curId[p]] = @ + TryGuard(wantGuard[p], FALSE)]
            /\ Return(p, IF wantGuard[p] THEN "no_guard" ELSE "false")
            /\ UNCHANGED <<semval, semadj, otime, held, rawUsed>>
    /\ UNCHANGED <<marker, freeInodes, keySem, nextId, semAlive>>
    /\ UNCHANGED handles
    /\ UNCHANGED <<initDone, initVal, initCnt, sawInit>>
    /\ UNCHANGED svars

\* release() is called on a handle.
CallRelease(p, id) ==
    /\ pc[p] = "idle"
    /\ id \in handles[p]
    /\ semadj[p][id] > -MaxRel
    /\ semval[id] < initVal[id] + MaxRel
    /\ pc' = [pc EXCEPT ![p] = "post"]
    /\ curId' = [curId EXCEPT ![p] = id]
    /\ wantGuard' = [wantGuard EXCEPT ![p] = FALSE]
    /\ rawUsed' = [rawUsed EXCEPT ![id] = TRUE]
    /\ UNCHANGED kvars
    /\ UNCHANGED <<curName, curCnt, polls, intr, handles, guards, ret>>
    /\ UNCHANGED <<initDone, initVal, initCnt, held, sawInit>>

\* Mutant of DropTo: dropping a Guard does nothing.
DropTo_Forget == "idle"

\* Where the drop of a Guard takes the process: into post().
DropTo == "post"

\* A Guard goes out of scope: Drop for Guard calls post() on its semaphore.
DropGuard(p, id) ==
    /\ pc[p] = "idle"
    /\ guards[p][id] > 0
    /\ guards' = [guards EXCEPT ![p][id] = @ - 1]
    /\ pc' = [pc EXCEPT ![p] = DropTo]
    /\ curId' = [curId EXCEPT ![p] = id]
    /\ wantGuard' = [wantGuard EXCEPT ![p] = TRUE]
    /\ UNCHANGED kvars
    /\ UNCHANGED <<curName, curCnt, polls, intr, handles, ret>>
    /\ UNCHANGED hvars

\* Mutant of PostAmt: post() gives two units.
PostAmt_Two == 1 + 1

\* The amount post() adds: `self.modify(1, true)`.
PostAmt == 1

\* Mutant of PostDone: the increment of post() does not carry SEM_UNDO.
PostDone_NoUndo(p) ==
    /\ pc[p] = "post"
    /\ SemopReady(semval[curId[p]], PostAmt)
    /\ semval' = [semval EXCEPT ![curId[p]] = @ + PostAmt]
    /\ otime' = [otime EXCEPT ![curId[p]] = TRUE]
    /\ semadj' = semadj
    /\ Account(p, curId[p], -1)
    /\ Return(p, IF wantGuard[p] THEN "dropped" ELSE "released")
    /\ UNCHANGED <<marker, freeInodes, keySem, nextId, semAlive>>
    /\ UNCHANGED <<handles, guards>>
    /\ UNCHANGED <<initDone, initVal, initCnt, rawUsed, sawInit>>
    /\ UNCHANGED svars

\* post(): `self.modify(1, true) == 0`: the increment is applied.
PostDone(p) ==
    /\ pc[p] = "post"
    /\ SemopReady(semval[curId[p]], PostAmt)
    /\ Modify(p, curId[p], PostAmt)
    /\ Account(p, curId[p], -1)
    /\ Return(p, IF wantGuard[p] THEN "dropped" ELSE "released")
    /\ UNCHANGED <<marker, freeInodes, keySem, nextId, semAlive>>
    /\ UNCHANGED <<handles, guards>>
    /\ UNCHANGED <<initDone, initVal, initCnt, rawUsed, sawInit>>
    /\ UNCHANGED svars

\* The process ends with outcome r (exit, kill, or a panic that ends it):
\* its handles and Guards are gone, and the kernel applies its undo
\* adjustments to every set that still exists.
EndProcessAs(p, r) ==
    /\ semval' = [i \in Ids |->
                    IF semAlive[i] THEN UndoVal(semval[i], semadj[p][i])
                    ELSE semval[i]]
    /\ semadj' = [semadj EXCEPT ![p] = [i \in Ids |-> 0]]
    /\ Return(p, r)
    /\ handles' = [handles EXCEPT ![p] = {}]
    /\ guards' = [guards EXCEPT ![p] = [i \in Ids |-> 0]]
    /\ held' = [held EXCEPT ![p] = [i \in Ids |-> 0]]
    /\ sawInit' = [sawInit EXCEPT ![p] = FALSE]
    /\ UNCHANGED <<marker, freeInodes, keySem, nextId, semAlive, otime>>
    /\ UNCHANGED <<initDone, initVal, initCnt, rawUsed>>

\* The process exits or is killed.  The outcome records whether it held
\* units.
EndProcess(p) ==
    EndProcessAs(p, IF \E i \in Ids : held[p][i] > 0 THEN "ended_holding" ELSE "ended")

\* A panic of the library: the thread unwinds, which drops its Guards (one
\* increment each), and the process ends, which undoes what is left; in sum
\* the kernel's adjustment.
Panic(p) == EndProcessAs(p, "panicked")

\* Semaphore::key cannot create the directory <tmp>/ipc-rs-sems (possible
\* only while no marker file exists in it):
\* `fs::create_dir_all(&dir).unwrap()` panics.
KeyDirFails(p, n) ==
    /\ pc[p] = "idle"
    /\ UsedInodes = {}
    /\ Panic(p)

\* Semaphore::key cannot create the marker file (the filesystem has no inode
\* left: ENOSPC): `e => return Err(e)`.
KeyOpenFails(p, n) ==
    /\ pc[p] = "idle"
    /\ marker[n] = NoFile
    /\ freeInodes = {}
    /\ Return(p, "Err")
    /\ UNCHANGED kvars
    /\ UNCHANGED <<handles, guards>>
    /\ UNCHANGED hvars

\* post(): the increment fails with ERANGE (the value is SEMVMX):
\* `panic!("unknown post error")`.
PostPanic(p) ==
    /\ pc[p] = "post"
    /\ SemopRange(semval[curId[p]], PostAmt)
    /\ Panic(p)

\* Mutant of DropSemaphore: dropping a handle removes the kernel object
\* (IPC_RMID).
DropSemaphore_Rmid(p, id) ==
    /\ pc[p] = "idle"
    /\ id \in handles[p]
    /\ guards[p][id] = 0
    /\ handles' = [handles EXCEPT ![p] = @ \ {id}]
    /\ semAlive' = [semAlive EXCEPT ![id] = FALSE]
    /\ UNCHANGED <<marker, freeInodes, keySem, nextId, semval, otime, semadj>>
    /\ UNCHANGED <<pc, curName, curCnt, curId, polls, intr, wantGuard, guards, ret>>
    /\ UNCHANGED hvars

\* A Semaphore value is dropped (its Guards, which borrow it, are gone):
\* `fn drop(&mut self) {}`.  The process keeps its undo adjustments.
DropSemaphore(p, id) ==
    /\ pc[p] = "idle"
    /\ id \in handles[p]
    /\ guards[p][id] = 0
    /\ handles' = [handles EXCEPT ![p] = @ \ {id}]
    /\ UNCHANGED kvars
    /\ UNCHANGED <<pc, curName, curCnt, curId, polls, intr, wantGuard, guards, ret>>
    /\ UNCHANGED hvars

\* post(): semop fails with EINTR (the interface allows it for every
\* operation); post() has no loop:
\* `panic!("unknown post error: {}", Error::last_os_error())`.
PostInterrupted(p) ==
    /\ pc[p] = "post"
    /\ ~SemopRange(semval[curId[p]], PostAmt)
    /\ Panic(p)

\* The caller has looked at the outcome of its call and goes on (after the
\* end of a process: a fresh process starts under the same index).
Resume(p) ==
    /\ pc[p] = "returned"
    /\ pc' = [pc EXCEPT ![p] = "idle"]
    /\ ret' = [ret EXCEPT ![p] = "none"]
    /\ sawInit' = [sawInit EXCEPT ![p] = FALSE]
    /\ UNCHANGED kvars
    /\ UNCHANGED <<curName, curCnt, curId, polls, intr, wantGuard, handles, guards>>
    /\ UNCHANGED <<initDone, initVal, initCnt, rawUsed, held>>

\* The process exits or is killed, at any point of its life.
Terminate(p) ==
    /\ \/ pc[p] \notin {"idle", "returned"}
       \/ handles[p] # {}
    /\ EndProcess(p)

(***************************************************************************)
(* The open system: any process may call any operation at any time.        *)
(***************************************************************************)
Next ==
    \E p \in Procs :
        \/ \E n \in OpenNames, cnt \in CntSet :
              CallNew(p, n, cnt) /\ UNCHANGED svars
        \/ \E n \in OpenNames : KeyDirFails(p, n) /\ UNCHANGED svars
        \/ SemgetCreate(p)
        \/ SemgetNoSpace(p)
        \/ SemgetExists(p)
        \/ InitSetval(p)
        \/ InitSemop(p)
        \/ InitRollback(p)
        \/ JoinSemget(p)
        \/ JoinSemgetFail(p)
        \/ JoinPoll(p)
        \/ \E id \in Ids, g \in BOOLEAN :
              CallWait(p, id, g) /\ UNCHANGED svars
        \/ WaitDone(p)
        \/ WaitInterrupted(p)
        \/ \E id \in Ids, g \in BOOLEAN :
              CallTryWait(p, id, g) /\ UNCHANGED svars
        \/ TryWaitDone(p)
        \/ \E id \in Ids : CallRelease(p, id) /\ UNCHANGED svars
        \/ \E id \in Ids : DropGuard(p, id) /\ UNCHANGED svars
        \/ PostDone(p)
        \/ PostPanic(p) /\ UNCHANGED svars
        \/ PostInterrupted(p) /\ UNCHANGED svars
        \/ \E id \in Ids : DropSemaphore(p, id) /\ UNCHANGED svars
        \/ Resume(p) /\ UNCHANGED svars
        \/ Terminate(p) /\ UNCHANGED svars

Spec == Init /\ [][Next]_vars

(***************************************************************************)
(* The two-process test (src/bin/test.rs; src/tests/test.rs is the same    *)
(* parent with a child that opens and releases foo2 before opening foo1).  *)
(* Process 1 runs first_pass (A), process 2 the child (B).                 *)
(***************************************************************************)
ProcA == 1
ProcB == 2

\* The handle a program got from new(n): the set under n's key.
H(p, n) == keySem[Key(n)]

\* Last statement numbers.
DoneA == 11
DoneB == 7

\* `.unwrap()` on the outcome of new(): the program goes on only with Ok.
Unwrapped(p) == pc[p] = "idle"

Advance(p) == step' = [step EXCEPT ![p] = @ + 1]

\* first_pass(), one statement per step.
StepA(p) ==
    /\ prog[p] = "A"
    /\ Unwrapped(p)
    /\ \/ /\ step[p] = 1                    \* Semaphore::new("foo1", 1)
          /\ CallNew(p, "foo1", 1)
          /\ Advance(p)
       \/ /\ step[p] = 2                    \* Semaphore::new("foo2", 0)
          /\ CallNew(p, "foo2", 0)
          /\ Advance(p)
       \/ /\ step[p] = 3                    \* let g1 = sem1.access()
          /\ CallWait(p, H(p, "foo1"), TRUE)
          /\ Advance(p)
       \/ /\ step[p] = 4                    \* me().arg("test1_inner").spawn()
          /\ step' = [step EXCEPT ![p] = 5, ![ProcB] = 1]
          /\ UNCHANGED <<kvars, pvars, hvars>>
       \/ /\ step[p] = 5                    \* sem2.acquire()
          /\ CallWait(p, H(p, "foo2"), FALSE)
          /\ Advance(p)
       \/ /\ step[p] = 6                    \* drop(g1)
          /\ DropGuard(p, H(p, "foo1"))
          /\ Advance(p)
       \/ /\ step[p] = 7                    \* p.wait()
          /\ step[ProcB] = DoneB
          /\ Advance(p)
          /\ UNCHANGED <<kvars, pvars, hvars>>
       \/ /\ step[p] = 8                    \* drop(sem1.access()): access
          /\ CallWait(p, H(p, "foo1"), TRUE)
          /\ Advance(p)
       \/ /\ step[p] = 9                    \* drop(sem1.access()): drop
          /\ DropGuard(p, H(p, "foo1"))
          /\ Advance(p)
       \/ /\ step[p] = 10                   \* main returns
          /\ EndProcess(p)
          /\ Advance(p)
    /\ UNCHANGED <<prog, variant>>

\* The child: new("foo1", 0), new("foo2", 0), sem2.release(),
\* `let _ = sem1.access()` (the Guard is dropped at once), exit.  In
\* tests/test.rs: new("foo2", 0).release(), new("foo1", 0).access().
StepB(p) ==
    /\ prog[p] = "B"
    /\ Unwrapped(p)
    /\ \/ /\ step[p] = 1
          /\ CallNew(p, IF variant = "bin" THEN "foo1" ELSE "foo2", 0)
          /\ Advance(p)
       \/ /\ step[p] = 2
          /\ IF variant = "bin"
             THEN CallNew(p, "foo2", 0)
             ELSE CallRelease(p, H(p, "foo2"))
          /\ Advance(p)
       \/ /\ step[p] = 3
          /\ IF variant = "bin"
             THEN CallRelease(p, H(p, "foo2"))
             ELSE CallNew(p, "foo1", 0)
          /\ Advance(p)
       \/ /\ step[p] = 4
          /\ CallWait(p, H(p, "foo1"), TRUE)
          /\ Advance(p)
       \/ /\ step[p] = 5
          /\ DropGuard(p, H(p, "foo1"))
          /\ Advance(p)
       \/ /\ step[p] = 6
          /\ EndProcess(p)
          /\ Advance(p)
    /\ UNCHANGED <<prog, variant>>

\* `.unwrap()`: only an Ok lets the program go on; the other outcomes of the
\* calls are not looked at.
ResumeProg(p) ==
    /\ prog[p] \in {"A", "B"}
    /\ ret[p] \notin {"Err", "TimedOut"}
    /\ Resume(p)
    /\ UNCHANGED svars

\* The test starts on a machine where no semaphore exists yet; marker files
\* of earlier runs may be there (they are never cleaned up).
InitHandshake ==
    /\ KernelInit
    /\ freeInodes \cup UsedInodes = PlainInodes
    /\ prog = [p \in Procs |-> IF p = ProcA THEN "A"
                               ELSE IF p = ProcB THEN "B" ELSE "none"]
    /\ step = [p \in Procs |-> IF p = ProcA THEN 1 ELSE 0]
    /\ variant \in {"bin", "tests"}

NextHandshake ==
    \E p \in Procs :
        \/ StepA(p)
        \/ StepB(p)
        \/ ResumeProg(p)
        \/ SemgetCreate(p)
        \/ SemgetExists(p)
        \/ InitSetval(p)
        \/ InitSemop(p)
        \/ JoinSemget(p)
        \/ JoinPoll(p)
        \/ WaitDone(p)
        \/ PostDone(p)

SpecHandshake == InitHandshake /\ [][NextHandshake]_vars

\* The test is run again (tests::test1 starts the binary with "test1" once
\* more): both processes of the previous run have exited, the semaphore
\* sets and marker files are still there.
RunAgain ==
    /\ step[ProcA] = DoneA /\ step[ProcB] = DoneB
    /\ \A p \in Procs : pc[p] = "idle"
    /\ step' = [p \in Procs |-> IF p = ProcA THEN 1 ELSE 0]
    /\ UNCHANGED <<prog, variant>>
    /\ UNCHANGED <<kvars, pvars, hvars>>

NextRepeat ==
    \/ \E p \in Procs :
        \/ StepA(p)
        \/ StepB(p)
        \/ ResumeProg(p)
        \/ SemgetCreate(p)
        \/ SemgetExists(p)
        \/ InitSetval(p)
        \/ InitSemop(p)
        \/ JoinSemget(p)
        \/ JoinPoll(p)
        \/ WaitDone(p)
        \/ PostDone(p)
    \/ RunAgain

\* The two-process test, run any number of times on one machine.
SpecRepeat == InitHandshake /\ [][NextRepeat]_vars

\* One step of process p in the two-process test.
HandshakeStep(p) ==
    \/ StepA(p)
    \/ StepB(p)
    \/ ResumeProg(p)
    \/ SemgetCreate(p)
    \/ SemgetExists(p)
    \/ InitSetval(p)
    \/ InitSemop(p)
    \/ JoinSemget(p)
    \/ JoinPoll(p)
    \/ WaitDone(p)
    \/ PostDone(p)

\* The test under a scheduler that is fair to both processes: a process
\* that can take its next step (its system call can complete, its next
\* statement can run) eventually takes it.
SpecHandshakeFair ==
    /\ InitHandshake
    /\ [][NextHandshake]_vars
    /\ \A p \in Procs : WF_vars(HandshakeStep(p))

(***************************************************************************)
(* Waiters and releasers on a counter that exists: every process has       *)
(* opened foo1, whose counter was created with a count of WakeCnts, and    *)
(* goes on calling the operations.  Scheduling is fair to the system calls *)
(* in progress: a post() is never blocked, so it completes (WF); the       *)
(* kernel completes a pending decrement when an increment makes it         *)
(* possible, so a wait() that can proceed again and again is not passed    *)
(* over forever (SF).  Nothing is assumed about which calls are made.      *)
(***************************************************************************)
WakeCnts == {0, 1}

InitWake ==
    /\ \E c \in WakeCnts :
          /\ semval = [i \in Ids |-> IF i = 1 THEN c ELSE 0]
          /\ initVal = [i \in Ids |-> IF i = 1 THEN c ELSE 0]
          /\ initCnt = [i \in Ids |-> IF i = 1 THEN c ELSE 0]
    /\ marker = [n \in Names |-> IF n = "foo1" THEN 1 ELSE NoFile]
    /\ freeInodes = {}
    /\ keySem = [k \in Keys |-> IF k = Ftok(1) THEN 1 ELSE NoId]
    /\ nextId = 2
    /\ semAlive = [i \in Ids |-> i = 1]
    /\ otime = [i \in Ids |-> i = 1]
    /\ initDone = [i \in Ids |-> i = 1]
    /\ semadj = [p \in Procs |-> [i \in Ids |-> 0]]
    /\ pc = [p \in Procs |-> "idle"]
    /\ curName = [p \in Procs |-> "foo1"]
    /\ curCnt = [p \in Procs |-> 0]
    /\ curId = [p \in Procs |-> NoId]
    /\ polls = [p \in Procs |-> 0]
    /\ intr = [p \in Procs |-> 0]
    /\ wantGuard = [p \in Procs |-> FALSE]
    /\ handles = [p \in Procs |-> {1}]
    /\ guards = [p \in Procs |-> [i \in Ids |-> 0]]
    /\ ret = [p \in Procs |-> "none"]
    /\ rawUsed = [i \in Ids |-> FALSE]
    /\ held = [p \in Procs |-> [i \in Ids |-> 0]]
    /\ sawInit = [p \in Procs |-> FALSE]
    /\ prog = [p \in Procs |-> "open"]
    /\ step = [p \in Procs |-> 0]
    /\ variant = "bin"

NextWake ==
    \E p \in Procs :
        \/ \E id \in Ids, g \in BOOLEAN :
              CallWait(p, id, g) /\ UNCHANGED svars
        \/ WaitDone(p)
        \/ \E id \in Ids, g \in BOOLEAN :
              CallTryWait(p, id, g) /\ UNCHANGED svars
        \/ TryWaitDone(p)
        \/ \E id \in Ids : CallRelease(p, id) /\ UNCHANGED svars
        \/ \E id \in Ids : DropGuard(p, id) /\ UNCHANGED svars
        \/ PostDone(p)
        \/ Resume(p) /\ UNCHANGED svars
        \/ Terminate(p) /\ UNCHANGED svars

SpecWake ==
    /\ InitWake
    /\ [][NextWake]_vars
    /\ \A p \in Procs : WF_vars(PostDone(p)) /\ SF_vars(WaitDone(p))

(***************************************************************************)
(* Names, marker files and keys: each process opens its own name (again    *)
(* and again, also after it has ended and started anew) and releases on    *)
(* the handles it got, while marker files are deleted between calls (the   *)
(* temporary directory is cleaned) and created anew with whatever inode    *)
(* the filesystem hands out.                                               *)
(***************************************************************************)
\* The name a process passes to new().
OwnName(p) == IF p = 1 THEN "foo1" ELSE "foo2"

\* The counts passed to new().
NameCnts == {1}

\* The marker file of a name is deleted, while no new() on the name is in
\* progress.  Its inode is not handed out again.
RemoveMarker(n) ==
    /\ marker[n] # NoFile
    /\ \A p \in Procs : pc[p] \in {"semget", "init_setval", "init_semop",
                                  "join_semget", "join_poll"}
                        => curName[p] # n
    /\ marker' = [marker EXCEPT ![n] = NoFile]
    /\ UNCHANGED <<freeInodes, keySem, nextId, semAlive, semval, otime, semadj>>
    /\ UNCHANGED pvars
    /\ UNCHANGED hvars

InitNames ==
    /\ KernelInit
    /\ freeInodes \cup UsedInodes = InodeSet
    /\ prog = [p \in Procs |-> "open"]
    /\ step = [p \in Procs |-> 0]
    /\ variant = "bin"

NextNames ==
    \/ \E p \in Procs :
        \/ \E cnt \in NameCnts : CallNew(p, OwnName(p), cnt) /\ UNCHANGED svars
        \/ KeyOpenFails(p, OwnName(p)) /\ UNCHANGED svars
        \/ SemgetCreate(p)
        \/ SemgetExists(p)
        \/ InitSetval(p)
        \/ InitSemop(p)
        \/ JoinSemget(p)
        \/ JoinPoll(p)
        \/ \E id \in Ids : CallRelease(p, id) /\ UNCHANGED svars
        \/ PostDone(p)
        \/ Resume(p) /\ UNCHANGED svars
        \/ Terminate(p) /\ UNCHANGED svars
    \/ \E n \in Names : RemoveMarker(n) /\ UNCHANGED svars

SpecNames == InitNames /\ [][NextNames]_vars

(***************************************************************************)
(* Properties.                                                             *)
(***************************************************************************)
Sum(f) ==
    LET RECURSIVE S(_)
        S(ps) == IF ps = {} THEN 0
                 ELSE LET q == CHOOSE x \in ps : TRUE
                      IN  f[q] + S(ps \ {q})
    IN  S(Procs)

\* Guards alive on a counter, over all processes.
LiveGuards(id) == Sum([p \in Procs |-> guards[p][id]])

\* Guards whose drop has called post() and whose increment is not applied
\* yet.
DroppingGuards(id) ==
    Sum([p \in Procs |-> IF pc[p] = "post" /\ curId[p] = id /\ wantGuard[p]
                         THEN 1 ELSE 0])

\* Process p takes a step.
Steps(p) ==
    <<pc[p], polls[p], ret[p], handles[p], guards[p]>>
        # <<pc[p], polls[p], ret[p], handles[p], guards[p]>>'

\* C1 (counting invariant): the counter never goes below 0; a wait() that
\* returns (acquire or access) found the counter above 0 and took exactly
\* one unit off it; and on a counter that is used through access() and
\* try_access() only, the live Guards never exceed the count it was created
\* with.
C1_Counting ==
    [][ /\ \A i \in Ids : semval'[i] >= 0
        /\ \A p \in Procs :
              pc[p] = "wait" /\ pc'[p] = "returned" /\ ret'[p] \in {"acquired", "guard"}
              => /\ semval[curId[p]] > 0
                 /\ semval'[curId[p]] = semval[curId[p]] - 1
        /\ \A i \in Ids :
              initDone'[i] /\ ~rawUsed'[i]
              => /\ LiveGuards(i)' <= initVal'[i]
                 /\ initVal'[i] <= initCnt'[i]
      ]_vars

\* Witness of C1: on a counter created with 1 and used through Guards only,
\* one process holds the Guard while another is blocked in access().
C1_Witness ==
    \E p, q \in Procs, i \in Ids :
        /\ initDone[i] /\ initVal[i] = 1 /\ ~rawUsed[i]
        /\ guards[p][i] = 1
        /\ pc[q] = "wait" /\ curId[q] = i /\ wantGuard[q]
        /\ semval[i] = 0

\* Positions of new(): the initializer's and all of them.
InitPcs == {"init_setval", "init_semop"}
NewPcs == {"semget", "init_setval", "init_semop", "join_semget", "join_poll"}
Ended == {"ended", "ended_holding", "panicked"}

\* C2 (create/initialize race): among concurrent new() calls on a name, at
\* most one caller is the initializer of the name's counter and it got there
\* through an exclusive create that found no counter; a caller whose create
\* finds a counter becomes a joiner; a joiner returns Ok only for a counter
\* whose initializer has completed; no process ever owns a handle to a
\* counter that exists but is not initialized.
C2_CreateRace ==
    [][ /\ \A p, q \in Procs :
              pc'[p] \in InitPcs /\ pc'[q] \in InitPcs /\ curName'[p] = curName'[q]
              => p = q
        /\ \A p \in Procs :
              pc'[p] \in InitPcs
              => /\ keySem'[Key(curName'[p])] = curId'[p]
                 /\ ~initDone'[curId'[p]]
                 /\ ~otime'[curId'[p]]
        /\ \A p \in Procs :
              pc[p] = "semget" /\ pc'[p] = "init_setval"
              => /\ ExclFree(curName[p])
                 /\ \A q \in Procs : pc[q] \in InitPcs => curName[q] # curName[p]
        /\ \A p \in Procs :
              pc[p] = "semget" /\ ~ExclFree(curName[p])
              => /\ pc'[p] \in {"semget", "join_semget", "returned"}
                 /\ ret'[p] # "Ok"
        /\ \A p \in Procs :
              pc[p] = "join_poll" /\ ret'[p] = "Ok"
              => /\ initDone[curId[p]]
                 /\ semval[curId[p]] = semval'[curId[p]]
                 /\ curId[p] \in handles'[p]
        /\ \A p \in Procs : \A i \in handles'[p] : initDone'[i] /\ semAlive'[i]
      ]_vars

\* Two concurrent calls on one name: one is the initializer, in the middle of
\* its work, the other is a joiner that has polled and was not let through.
C2_Witness ==
    \E p, q \in Procs :
        /\ pc[p] \in InitPcs
        /\ pc[q] = "join_poll" /\ polls[q] >= 1
        /\ curId[q] = curId[p]
        /\ handles[q] = {}

\* C3 (count of a second new() is ignored): a new(name, cnt) called when the
\* name's counter exists and is initialized returns Ok with a handle to that
\* counter, for every cnt; none of its steps changes a counter or the count
\* the first creator gave, and it never takes the initializer path.
C3_JoinIgnoresCnt ==
    [][ \A p \in Procs :
           sawInit[p] /\ pc[p] \in NewPcs /\ Steps(p) /\ ret'[p] \notin Ended
           => /\ semval' = semval
              /\ initVal' = initVal
              /\ initCnt' = initCnt
              /\ pc'[p] \in {"join_semget", "join_poll", "returned"}
              /\ pc'[p] = "returned"
                 => /\ ret'[p] = "Ok"
                    /\ keySem[Key(curName[p])] \in handles'[p]
                    /\ initDone[keySem[Key(curName[p])]]
      ]_vars

\* A new() on an initialized counter has returned Ok, the counter holding a
\* value that an initializing call would have changed.
C3_Witness ==
    \E p, q \in Procs, i \in Ids :
        /\ p # q
        /\ pc[p] = "returned" /\ ret[p] = "Ok" /\ sawInit[p]
        /\ i \in handles[p] /\ i \in handles[q]
        /\ initVal[i] = 2 /\ semval[i] = 1 /\ guards[q][i] = 1

\* Events of the two-process test, read off the programs' positions.
\* B's release of foo2 is its statement 3 (src/bin/test.rs) or 2
\* (tests/test.rs); a call is over when its system call has completed.
BReleaseStep == IF variant = "bin" THEN 3 ELSE 2
Spawned == step[ProcA] >= 5
BReleased2 ==
    \/ step[ProcB] > BReleaseStep + 1
    \/ step[ProcB] = BReleaseStep + 1 /\ pc[ProcB] # "post"
AAcquired2 ==
    \/ step[ProcA] > 6
    \/ step[ProcA] = 6 /\ pc[ProcA] # "wait"
AReleased1 ==
    \/ step[ProcA] > 7
    \/ step[ProcA] = 7 /\ pc[ProcA] # "post"
BAcquired1 ==
    \/ step[ProcB] > 5
    \/ step[ProcB] = 5 /\ pc[ProcB] # "wait"

\* C4 (handshake ordering): in the two-process test A's acquire of foo2 has
\* not returned unless B's release of foo2 has completed, and B's acquire of
\* foo1 has not succeeded unless A's release of foo1 has completed; the
\* events happen in the order spawn, B releases foo2, A acquires foo2,
\* A releases foo1, B acquires foo1, and both new() calls of each program
\* return Ok.
C4_Handshake ==
    /\ AAcquired2 => BReleased2
    /\ BAcquired1 => AReleased1
    /\ AReleased1 => AAcquired2
    /\ BReleased2 => Spawned
    /\ step[ProcB] >= 1 => Spawned
    /\ \A p \in Procs : ret[p] \notin {"Err", "TimedOut"}

\* Both programs have run to their end, so every event has happened.
C4_Witness ==
    /\ step[ProcA] = DoneA /\ step[ProcB] = DoneB
    /\ AAcquired2 /\ BAcquired1
    /\ semval[H(ProcA, "foo1")] = 1

TryOutcomes == {"true", "some_guard", "false", "no_guard"}

\* C5 (try_acquire / try_access never block): a try_wait() in progress can
\* always complete at once; it returns true / Some(guard) exactly when the
\* counter was > 0, having taken exactly one unit, and false / None with the
\* counter unchanged when it was 0.  While the one unit of a counter created
\* with count 1 (and not released outside Guards) is held by a Guard, it
\* returns false / None.
C5_TryNeverBlocks ==
    [][ \A p \in Procs :
           pc[p] = "try_wait"
           => /\ ENABLED TryWaitDone(p)
              /\ pc'[p] = "returned" /\ ret'[p] \notin Ended
                 => LET id == curId[p]
                    IN  /\ ret'[p] \in TryOutcomes
                        /\ semval[id] > 0
                           => /\ ret'[p] = (IF wantGuard[p] THEN "some_guard" ELSE "true")
                              /\ semval'[id] = semval[id] - 1
                        /\ semval[id] = 0
                           => /\ ret'[p] = (IF wantGuard[p] THEN "no_guard" ELSE "false")
                              /\ semval' = semval
                              /\ guards' = guards
                        /\ initVal[id] = 1 /\ ~rawUsed[id] /\ LiveGuards(id) = 1
                           => ret'[p] \in {"false", "no_guard"}
      ]_vars

\* A try_access() has returned None while another process holds the Guard of
\* the one unit of a count-1 counter.
C5_Witness ==
    \E p, q \in Procs, i \in Ids :
        /\ p # q
        /\ initDone[i] /\ initVal[i] = 1 /\ ~rawUsed[i]
        /\ guards[q][i] = 1 /\ semval[i] = 0
        /\ i \in handles[p]
        /\ pc[p] = "returned" /\ ret[p] = "no_guard"

\* C6 (a Guard releases exactly once): a Guard exists only as the result of
\* an access() / try_access() that took one unit; the drop of a Guard (the
\* process living on) removes that one Guard and enters exactly one post()
\* on the Guard's semaphore, which adds exactly one unit or panics; a
\* try_access() returning None makes no Guard and enters no post().
C6_GuardOnce ==
    [][ \A p \in Procs :
          /\ \A i \in Ids :
                guards'[p][i] < guards[p][i] /\ ret'[p] \notin Ended
                => /\ guards'[p][i] = guards[p][i] - 1
                   /\ pc[p] = "idle" /\ pc'[p] = "post"
                   /\ curId'[p] = i /\ wantGuard'[p]
          /\ pc[p] # "post" /\ pc'[p] = "post" /\ wantGuard'[p]
             => /\ guards'[p][curId'[p]] = guards[p][curId'[p]] - 1
                /\ semval' = semval
          /\ pc[p] = "post" /\ wantGuard[p] /\ Steps(p)
             => \/ ret'[p] \in Ended
                \/ /\ pc'[p] = "returned" /\ ret'[p] = "dropped"
                   /\ semval'[curId[p]] = semval[curId[p]] + 1
                   /\ guards' = guards
          /\ \A i \in Ids :
                guards'[p][i] > guards[p][i]
                => /\ guards'[p][i] = guards[p][i] + 1
                   /\ ret'[p] \in {"guard", "some_guard"}
                   /\ curId[p] = i
                   /\ semval'[i] = semval[i] - 1
          /\ pc[p] = "try_wait" /\ ret'[p] = "no_guard"
             => /\ guards' = guards
                /\ semval' = semval
                /\ pc'[p] = "returned"
      ]_vars

\* A Guard has been dropped and its one post() has completed, while the
\* other process still holds a Guard of the same counter.
C6_Witness ==
    \E p, q \in Procs, i \in Ids :
        /\ p # q
        /\ pc[p] = "returned" /\ ret[p] = "dropped"
        /\ guards[p][i] = 0 /\ guards[q][i] = 1
        /\ initVal[i] = 2 /\ semval[i] = 1 /\ ~rawUsed[i]

\* C7 (round trip): on a counter used through Guards only, the value is the
\* initial value minus the Guards alive or being dropped, so an access()
\* followed by the drop of its Guard puts the value back where it was and a
\* try_access() then succeeds as it would have before; a completed drop
\* always leaves at least one unit, so a try_access() that failed before it
\* can succeed after it.
C7_RoundTrip ==
    [][ /\ \A i \in Ids :
              initDone'[i] /\ ~rawUsed'[i]
              => semval'[i] = initVal'[i] - (LiveGuards(i)' + DroppingGuards(i)')
        /\ \A p \in Procs :
              pc[p] = "post" /\ wantGuard[p] /\ ret'[p] = "dropped" /\ ~rawUsed[curId[p]]
              => /\ semval'[curId[p]] = semval[curId[p]] + 1
                 /\ semval'[curId[p]] <= initVal[curId[p]]
                 /\ SemopReady(semval'[curId[p]], -1)
      ]_vars

\* The Guard holding the only unit has been dropped while the other process
\* is in a try_access() on the same counter, which can now take the unit.
C7_Witness ==
    \E p, q \in Procs, i \in Ids :
        /\ p # q
        /\ pc[p] = "returned" /\ ret[p] = "dropped"
        /\ initVal[i] = 1 /\ semval[i] = 1 /\ ~rawUsed[i]
        /\ pc[q] = "try_wait" /\ curId[q] = i /\ wantGuard[q]

\* A wait() of process p is in progress and its counter has a unit.
CanWake(p) == pc[p] = "wait" /\ semval[curId[p]] > 0

\* C8 (release wakes a waiter): a release() that returns has added exactly
\* one unit; a returning acquire() consumes exactly one; a post() in progress
\* completes; a unit that is there for a blocked acquire() does not stay: the
\* acquire() returns or the unit is consumed; and no acquire() stays blocked
\* forever while its counter has a unit again and again.
C8_ReleaseWakes ==
    /\ [][ \A p \in Procs :
              /\ pc[p] = "post" /\ ret'[p] \in {"released", "dropped"}
                 => semval'[curId[p]] = semval[curId[p]] + 1
              /\ pc[p] = "wait" /\ ret'[p] \in {"acquired", "guard"}
                 => semval'[curId[p]] = semval[curId[p]] - 1
          ]_vars
    /\ \A p \in Procs : (pc[p] = "post") ~> (pc[p] # "post")
    /\ \A p \in Procs : CanWake(p) ~> ~CanWake(p)
    /\ \A p \in Procs : <>[](pc[p] = "wait") => <>[](~CanWake(p))

\* A process blocked in acquire() on a counter of 0 has been woken by the
\* release() of the other: both calls have just returned, the unit is gone.
C8_Witness ==
    \E p, q \in Procs, i \in Ids :
        /\ p # q
        /\ initDone[i] /\ initVal[i] = 0 /\ semval[i] = 0
        /\ pc[p] = "returned" /\ ret[p] = "acquired" /\ held[p][i] = 1
        /\ pc[q] = "returned" /\ ret[q] = "released" /\ held[q][i] = -1

\* The step in which process p ends.
Ends(p) == ret[p] \notin Ended /\ ret'[p] \in Ended

Min(a, b) == IF a <= b THEN a ELSE b

\* What wait, try_wait and post leave in the kernel's books: the undo
\* adjustment of every process for every counter is the number of units it
\* has taken and not given back.
UndoMirrorsHeld ==
    \A p \in Procs : \A i \in Ids : semadj'[p][i] = held'[p][i]

\* When a process holding units of a counter ends, a wait() blocked on that
\* counter can proceed.
WaiterFreed(p) ==
    \A i \in Ids :
        semAlive[i] /\ held[p][i] > 0
        => \A q \in Procs \ {p} :
              pc[q] = "wait" /\ curId[q] = i
              => SemopReady(semval'[i], -1)

\* C9 (crash reclamation), as stated: every operation of wait, try_wait and
\* post carries the undo flag, and when a process ends holding k units of a
\* counter the kernel adds k to the counter, so that a blocked waiter can
\* proceed.
C9_UndoAddsBack ==
    [][ /\ UndoMirrorsHeld
        /\ \A p \in Procs :
              Ends(p)
              => /\ WaiterFreed(p)
                 /\ \A i \in Ids :
                       semAlive[i] /\ held[p][i] >= 0
                       => semval'[i] = semval[i] + held[p][i]
      ]_vars

\* C9 (crash reclamation), with the kernel's limit: when a process ends
\* holding k units of a counter the kernel adds k to the counter, stopping
\* at the largest value a semaphore can have (SEMVMX).
C9_UndoAddsBackSaturating ==
    [][ /\ UndoMirrorsHeld
        /\ \A p \in Procs :
              Ends(p)
              => /\ WaiterFreed(p)
                 /\ \A i \in Ids :
                       semAlive[i] /\ held[p][i] >= 0
                       => semval'[i] = Min(semval[i] + held[p][i], SEMVMX)
      ]_vars

\* A process has ended holding the only unit of a counter on which the other
\* process is blocked in access(); the unit is back.
C9_Witness ==
    \E p, q \in Procs, i \in Ids :
        /\ p # q
        /\ pc[p] = "returned" /\ ret[p] = "ended_holding"
        /\ pc[q] = "wait" /\ curId[q] = i
        /\ initVal[i] = 1 /\ semval[i] = 1 /\ ~rawUsed[i]

\* C10 (initial count): a new(name, cnt) that creates the counter gives it
\* the value cnt, for every cnt, and does not block: the initializer's semop
\* can always be applied at once, and the value it leaves is the cnt the
\* initializer was called with.
C10_InitCount ==
    /\ \A p \in Procs : pc[p] = "init_semop" => ENABLED InitSemop(p)
    /\ \A i \in Ids : initDone[i] => initVal[i] = initCnt[i]

\* C11 (construction failures): a failure of the operating system during
\* new() never makes new() panic: no process panics out of a new() (called
\* or in progress); a new() that returns an error returns no handle.
C11_NewNeverPanics ==
    [][ \A p \in Procs :
          /\ ret'[p] = "panicked" => pc[p] \notin NewPcs \cup {"idle"}
          /\ pc[p] \in NewPcs /\ ret'[p] \in {"Err", "TimedOut"}
             => handles'[p] = handles[p]
      ]_vars

\* C12 (stable name resolution): every new() with the same name attaches to
\* the same counter, also after the marker file was removed and created
\* anew: the handles a process got for its one name are handles to one
\* counter, and at most one live counter serves a name.
C12_SameNameSameCounter ==
    \A p \in Procs : Cardinality(handles[p]) <= 1

C14_BoundedJoin ==
    [][ \A p \in Procs :
          /\ polls'[p] < PollLimit
          /\ ret'[p] = "TimedOut" /\ ret[p] # "TimedOut" => pc[p] = "join_poll"
          /\ pc[p] = "join_poll" /\ Steps(p) /\ ret'[p] \notin Ended
             => LET id == curId[p]
                IN  /\ semAlive[id] /\ otime[id]
                       => /\ pc'[p] = "returned" /\ ret'[p] = "Ok"
                          /\ handles'[p] = handles[p] \cup {id}
                    /\ semAlive[id] /\ ~otime[id]
                       => /\ handles'[p] = handles[p]
                          /\ IF polls[p] + 1 = PollLimit
                             THEN pc'[p] = "returned" /\ ret'[p] = "TimedOut"
                             ELSE pc'[p] = "join_poll" /\ polls'[p] = polls[p] + 1
                    /\ ~semAlive[id]
                       => /\ pc'[p] = "returned" /\ ret'[p] = "Err"
                          /\ handles'[p] = handles[p]
      ]_vars

\* A joiner has given up with the timed-out error, without a handle, while
\* the initializer is still between its create and its semop.
C14_Witness ==
    \E p, q \in Procs :
        /\ pc[p] = "returned" /\ ret[p] = "TimedOut" /\ handles[p] = {}
        /\ pc[q] \in InitPcs
        /\ ~otime[curId[q]]

\* C15 (initializer rollback): an initializer that returns an error has
\* destroyed the counter it created and freed its key; no key and no handle
\* ever refers to a destroyed counter; a joiner that attached to a counter
\* destroyed since gets an error; and a new() that finds the key free takes
\* the exclusive-create path again.
C15_Rollback ==
    [][ /\ \A p \in Procs :
              pc[p] \in InitPcs /\ pc'[p] = "returned" /\ ret'[p] \notin Ended
              /\ ret'[p] # "Ok"
              => /\ ret'[p] = "Err"
                 /\ ~semAlive'[curId[p]]
                 /\ keySem'[Key(curName[p])] = NoId
                 /\ handles' = handles
        /\ \A k \in Keys : keySem'[k] # NoId => semAlive'[keySem'[k]]
        /\ \A p \in Procs : \A i \in handles'[p] : semAlive'[i]
        /\ \A p \in Procs :
              pc[p] = "join_poll" /\ ~semAlive[curId[p]] /\ Steps(p)
              => ret'[p] \in Ended \cup {"Err"} /\ handles'[p] \subseteq handles[p]
        /\ \A p \in Procs :
              pc[p] = "semget" /\ ExclFree(curName[p]) /\ Steps(p)
              /\ ret'[p] \notin Ended
              => \/ /\ pc'[p] = "init_setval"
                    /\ semAlive'[curId'[p]]
                    /\ ~semAlive[curId'[p]] /\ ~initDone[curId'[p]]
                 \/ nextId > MaxIds /\ ret'[p] = "Err"
      ]_vars

\* After a rollback: a counter was destroyed before its initialization, a
\* new() has returned an error and no handle, and a later new() on the name
\* is the initializer of a fresh counter.
C15_Witness ==
    \E p, q \in Procs, i, j \in Ids :
        /\ p # q /\ i # j
        /\ ~semAlive[i] /\ ~initDone[i]
        /\ pc[p] = "returned" /\ ret[p] = "Err" /\ handles[p] = {}
        /\ pc[q] \in InitPcs /\ curId[q] = j /\ semAlive[j]
        /\ keySem[Key(curName[q])] = j

\* C16 (post retries on interruption): a post() whose increment is
\* interrupted by a signal goes on until the increment is applied; the only
\* panic out of post() is a failure other than the interruption, that is, the
\* kernel refusing the increment at the largest value.
C16_PostRetries ==
    [][ \A p \in Procs :
           pc[p] = "post" /\ ret'[p] = "panicked"
           => SemopRange(semval[curId[p]], PostAmt)
      ]_vars

C18_OtimeSignals ==
    [][ /\ \A p \in Procs :
              pc[p] \in InitPcs /\ ret'[p] = "Ok"
              => otime'[curId[p]] /\ initDone'[curId[p]]
        /\ \A i \in Ids : initDone'[i] => otime'[i]
        /\ \A p \in Procs :
              pc[p] = "join_poll" /\ initDone[curId[p]] /\ Steps(p)
              /\ ret'[p] \notin Ended
              => pc'[p] = "returned" /\ ret'[p] = "Ok"
        /\ \A p \in Procs :
              sawInit[p] => ret'[p] # "TimedOut"
      ]_vars

\* A counter was created with count 0; a new() called after the
\* initializer's had returned has returned Ok with a handle to it.
C18_Witness ==
    \E p, q \in Procs, i \in Ids :
        /\ p # q
        /\ initDone[i] /\ initCnt[i] = 0 /\ initVal[i] = 0 /\ otime[i]
        /\ i \in handles[q]
        /\ pc[p] = "returned" /\ ret[p] = "Ok" /\ sawInit[p]
        /\ i \in handles[p]

\* C19 (the handshake completes): under fair scheduling both programs of
\* the two-process test run to their end: no new() fails, B exits, A joins
\* it, A's final access() of foo1 succeeds, and A ends.
C19_HandshakeCompletes ==
    /\ [](\A p \in Procs : ret[p] \notin {"Err", "TimedOut", "panicked"})
    /\ <>(step[ProcB] = DoneB)
    /\ <>(step[ProcA] = 9 /\ pc[ProcA] = "returned" /\ ret[ProcA] = "guard")
    /\ <>[](step[ProcA] = DoneA /\ step[ProcB] = DoneB)

\* B has exited, A has joined it, and A's final access() of foo1 has just
\* returned its Guard.
C19_Witness ==
    /\ step[ProcB] = DoneB
    /\ step[ProcA] = 9 /\ pc[ProcA] = "returned" /\ ret[ProcA] = "guard"
    /\ guards[ProcA][H(ProcA, "foo1")] = 1
    /\ semval[H(ProcA, "foo1")] = 0

\* C20 (isolation between names): two new() calls in progress on different
\* names whose marker files exist never derive the same key, and handles
\* created from different names never refer to the same counter.
C20_NamesIsolated ==
    \A p, q \in Procs :
        OwnName(p) # OwnName(q)
        => /\ ( /\ pc[p] \in {"semget", "join_semget"}
                /\ pc[q] \in {"semget", "join_semget"}
                /\ marker[curName[p]] # NoFile
                /\ marker[curName[q]] # NoFile
                => Key(curName[p]) # Key(curName[q]) )
           /\ handles[p] \cap handles[q] = {}

\* C21 (the initial count survives the initializer): the initializer's
\* semop leaves every undo adjustment as it was, and when a process that
\* holds no unit of an initialized counter ends (the initializer included),
\* the counter keeps its value.
C21_InitSurvives ==
    [][ /\ \A p \in Procs :
              pc[p] = "init_semop" /\ ret'[p] = "Ok"
              => /\ semadj' = semadj
                 /\ semval'[curId[p]] = initVal'[curId[p]]
        /\ \A p \in Procs :
              Ends(p)
              => \A i \in Ids :
                    semAlive[i] /\ initDone[i] /\ held[p][i] = 0
                    => semval'[i] = semval[i]
      ]_vars

\* The process that created a counter with one unit has ended; the other
\* process, which joined the counter, still finds the unit in it.
C21_Witness ==
    \E p, q \in Procs, i \in Ids :
        /\ p # q
        /\ pc[p] = "returned" /\ ret[p] = "ended"
        /\ pc[q] = "returned" /\ ret[q] = "Ok" /\ sawInit[q]
        /\ handles[q] = {i}
        /\ initCnt[i] = 1 /\ initVal[i] = 1 /\ semval[i] = 1
        /\ ~rawUsed[i] /\ held[q][i] = 0

Max(a, b) == IF a >= b THEN a ELSE b

\* C22 (release is undone at exit), as stated: the undo adjustment of a
\* process counts its releases as well as its acquires, and when a process
\* ends every live counter is changed by its acquires minus its releases,
\* floored at zero.
C22_ReleaseUndone ==
    [][ /\ UndoMirrorsHeld
        /\ \A p \in Procs :
              Ends(p)
              => \A i \in Ids :
                    semAlive[i]
                    => semval'[i] = Max(semval[i] + held[p][i], 0)
      ]_vars

\* C22 (release is undone at exit), with the kernel's upper limit: the
\* value after the end of the process is floored at zero and stops at the
\* largest value a semaphore can have (SEMVMX); a unit given by release()
\* without an acquire is taken back if it is still in the counter.
C22_ReleaseUndoneCapped ==
    [][ /\ UndoMirrorsHeld
        /\ \A p \in Procs :
              Ends(p)
              => \A i \in Ids :
                    semAlive[i]
                    => /\ semval'[i] =
                            Min(Max(semval[i] + held[p][i], 0), SEMVMX)
                       /\ held[p][i] < 0 /\ semval[i] >= -held[p][i]
                          => semval'[i] = semval[i] + held[p][i]
      ]_vars

\* A counter created with 0 units: one process gave a unit with release(),
\* the other took it, and the giver has ended: the counter stays at zero
\* and the taker keeps its unit.
C22_Witness ==
    \E p, q \in Procs, i \in Ids :
        /\ p # q
        /\ pc[q] = "returned" /\ ret[q] = "ended"
        /\ initDone[i] /\ initVal[i] = 0 /\ semval[i] = 0
        /\ held[p][i] = 1 /\ semadj[p][i] = 1
        /\ pc[p] = "returned" /\ ret[p] \in {"acquired", "guard"}

\* C23 (the handshake is repeatable): when both processes of the test have
\* exited, foo1's counter is 1 and foo2's counter is 0, and in every run of
\* the test, the first or a later one, A's acquire of foo2 does not return
\* before B's release of foo2 and B's acquire of foo1 does not return before
\* A's release of foo1.
C23_Repeatable ==
    /\ step[ProcA] = DoneA /\ step[ProcB] = DoneB
       => /\ semval[H(ProcA, "foo1")] = 1
          /\ semval[H(ProcA, "foo2")] = 0
    /\ AAcquired2 => BReleased2
    /\ BAcquired1 => AReleased1

\* The counter exists, its initializing semop has not completed, and no
\* process is between the exclusive create and that semop: its initializer
\* is dead.
Orphaned(i) ==
    /\ semAlive[i]
    /\ ~initDone[i]
    /\ \A p \in Procs : ~(pc[p] \in InitPcs /\ curId[p] = i)

\* C24 (no recovery from a dead initializer): a counter whose initializer
\* died between its exclusive create and its initializing semop stays in
\* existence under its key with sem_otime zero and stays uninitialized; a
\* new() that finds it takes the joiner path, polls it, and can only return
\* the timed-out error; no process ever gets a handle to it.
C24_DeadInitializer ==
    [][ \A i \in Ids :
          Orphaned(i)
          => /\ ~otime[i] /\ ~otime'[i]
             /\ Orphaned(i)'
             /\ \A k \in Keys : keySem[k] = i => keySem'[k] = i
             /\ \A p \in Procs :
                   /\ i \notin handles'[p]
                   /\ pc[p] = "semget" /\ keySem[Key(curName[p])] = i
                      /\ Steps(p) /\ ret'[p] \notin Ended
                      => pc'[p] = "join_semget"
                   /\ \/ pc[p] = "join_semget" /\ keySem[Key(curName[p])] = i
                      \/ pc[p] = "join_poll" /\ curId[p] = i
                      /\ Steps(p) /\ ret'[p] \notin Ended
                      => \/ /\ pc'[p] = "join_poll" /\ curId'[p] = i
                            /\ polls'[p] < PollLimit
                         \/ pc'[p] = "returned" /\ ret'[p] = "TimedOut"
      ]_vars

\* The initializer of foo1's counter died before its semop; since then
\* both processes have called new("foo1", ..) and got the timed-out error.
C24_Witness ==
    \E i \in Ids :
        /\ Orphaned(i)
        /\ keySem[Key("foo1")] = i
        /\ \A p \in Procs :
              /\ pc[p] = "returned" /\ ret[p] = "TimedOut"
              /\ curName[p] = "foo1"
              /\ handles[p] = {}

====
